---- MODULE Spec2Model ----
(***************************************************************************)
(* A model of the Thrush scripting language: the precedence-climbing       *)
(* parser (parser.rs), the one-pass bytecode compiler (compiler.rs), the   *)
(* stack virtual machine (vm.rs), the global table (scope.rs), the object  *)
(* model (value.rs) and the embedding entry point Thrush::exec (lib.rs).   *)
(*                                                                         *)
(* The scanner is an external collaborator: a script is the token vector   *)
(* the scanner hands to the parser, always ended by the Eof token.         *)
(* A Rust panic (todo!(), unwrap(), expect(), an index out of range) is    *)
(* modelled as the outcome "panic": the call never returns to the host.    *)
(***************************************************************************)
EXTENDS Integers, Sequences, FiniteSets, TLC

\* ------------------------------------------------------------------ bounds
\* Longest token vector (without the closing Eof) drawn over every token kind.
MaxTokens == 3
\* Longest operand/operator chain (without the closing Eof).
MaxChain == 5
\* Most Class objects and most Instance objects the heap holds.
MaxClasses == 2
MaxInstances == 2
\* Deepest operand stack.
MaxStack == 3
\* Most fields an Instance grows to, and the largest integer a field counts to.
MaxFields == 2
MaxInt == 4
\* Most instructions a Compiler that is used again accumulates.
MaxInstr == 8
\* Most BoundMethods the host holds, and most Class and Instance objects it
\* makes itself.
MaxBound == 2
MaxHostClasses == 1
MaxHostInstances == 1

\* ------------------------------------------------------------------ tokens
\* token.rs: a Token is its TokenKind; n and s are the payloads of
\* Literal(Integer) and of Ident / Literal(String).
Tok(k) == [k |-> k, n |-> 0, s |-> ""]
TInt(v) == [k |-> "Integer", n |-> v, s |-> ""]
TIdent(name) == [k |-> "Ident", n |-> 0, s |-> name]
TEof == Tok("Eof")

\* ------------------------------------------------------------------ AST
Literal(kind, v) == [t |-> "Literal", lit |-> kind, n |-> v]
Identifier(name) == [t |-> "Identifier", s |-> name]
BinExpr(op, left, right) == [t |-> "BinExpr", op |-> op, left |-> left, right |-> right]
UnaryExpr(op, value) == [t |-> "UnaryExpr", op |-> op, value |-> value]
CallExpr(callee) == [t |-> "Call", callee |-> callee]
DotExpr(object, property) == [t |-> "Dot", object |-> object, property |-> property]
StmtClass(name) == [t |-> "Class", name |-> name]
StmtVarDecl(id, init) == [t |-> "VarDecl", id |-> id, init |-> init]
StmtExpr(e) == [t |-> "Expr", expr |-> e]

\* ------------------------------------------------------------------ parser
\* enum Precedence, #[repr(u8)], in declaration order.
PrecNone == 0
PrecSum == 1
PrecTerm == 2
PrecCall == 3
PrecEnd == 4
\* The value prec() has no rule for: todo!() panics.
PrecPanic == -1

\* Precedence::left staying on the same tier.
Precedence_left_SameTier(p) == p

\* Precedence::left: the next tier.
Precedence_left(p) == p + 1

\* Results of the parser's functions: st is "ok", "err" (an Err(String)
\* returned through ?) or "panic"; pos is the parser's position afterwards.
POk(e, pos) == [st |-> "ok", e |-> e, pos |-> pos]
PErr(pos) == [st |-> "err", e |-> "", pos |-> pos]
PPanic(pos) == [st |-> "panic", e |-> "", pos |-> pos]

\* Parser::consume: advance unless the current token is the last one.
\* Positions are 1-based here: pos + 1 <= len - 1 of the 0-based source.
Parser_consume(toks, pos) == IF pos + 1 <= Len(toks) THEN pos + 1 ELSE pos

\* Parser::prec with one tier for every binary operator.
Parser_prec_OneTier(toks, pos) ==
    LET k == toks[pos].k IN
    IF k \in {"Plus", "Hypen", "Star", "BackSlash", "Modulo"} THEN PrecSum
    ELSE IF k = "LParen" THEN PrecCall
    ELSE IF k \in {"Eof", "RParen"} THEN PrecEnd
    ELSE PrecPanic

\* Parser::prec on the current token.
Parser_prec(toks, pos) ==
    LET k == toks[pos].k IN
    IF k \in {"Plus", "Hypen"} THEN PrecSum
    ELSE IF k \in {"Star", "BackSlash", "Modulo"} THEN PrecTerm
    ELSE IF k = "LParen" THEN PrecCall
    ELSE IF k \in {"Eof", "RParen"} THEN PrecEnd
    ELSE PrecPanic

\* Parser::identifier.
Parser_identifier(toks, pos) ==
    IF toks[pos].k = "Ident"
    THEN POk(toks[pos].s, Parser_consume(toks, pos))
    ELSE PErr(pos)

\* The operator and right-hand precedence of the binary arms of infix_expr.
InfixOp(k) ==
    CASE k = "Plus" -> "Add"
      [] k = "Hypen" -> "Sub"
      [] k = "Star" -> "Mul"
      [] k = "BackSlash" -> "Div"
      [] k = "Modulo" -> "Rem"

InfixRightPrec(k) ==
    IF k \in {"Plus", "Hypen"} THEN Precedence_left(PrecSum) ELSE Precedence_left(PrecTerm)

\* The operator of the prefix arms of literal.
PrefixOp(k) ==
    CASE k = "Hypen" -> "Sub"
      [] k = "Plus" -> "Add"
      [] k = "Bang" -> "Bang"

RECURSIVE Parser_expression(_, _, _)
RECURSIVE ExpressionLoop(_, _, _, _)
RECURSIVE Parser_infix_expr(_, _, _)
RECURSIVE Parser_literal(_, _)

\* Parser::literal: a primary term.
Parser_literal(toks, pos) ==
    LET k == toks[pos].k IN
    IF k = "Integer" THEN POk(Literal("Integer", toks[pos].n), Parser_consume(toks, pos))
    ELSE IF k \in {"String", "Float"} THEN PPanic(pos)
    ELSE IF k \in {"Hypen", "Plus", "Bang"} THEN
        LET r == Parser_expression(toks, Parser_consume(toks, pos), PrecEnd) IN
        IF r.st # "ok" THEN r ELSE POk(UnaryExpr(PrefixOp(k), r.e), r.pos)
    ELSE IF k = "LParen" THEN
        LET r == Parser_expression(toks, Parser_consume(toks, pos), Precedence_left(PrecNone)) IN
        IF r.st # "ok" THEN r ELSE POk(r.e, Parser_consume(toks, r.pos))
    ELSE IF k = "Ident" THEN
        LET r == Parser_identifier(toks, pos) IN
        IF r.st # "ok" THEN r ELSE POk(Identifier(r.e), r.pos)
    ELSE PErr(pos)

\* Parser::infix_expr: fold one infix operator into left.
Parser_infix_expr(toks, left, pos) ==
    LET k == toks[pos].k IN
    IF k \in {"Plus", "Hypen", "Star", "BackSlash", "Modulo"} THEN
        LET r == Parser_expression(toks, Parser_consume(toks, pos), InfixRightPrec(k)) IN
        IF r.st # "ok" THEN r ELSE POk(BinExpr(InfixOp(k), left, r.e), r.pos)
    ELSE IF k = "LParen" THEN
        POk(CallExpr(left), Parser_consume(toks, Parser_consume(toks, pos)))
    ELSE POk(left, pos)

\* The while loop of Parser::expression.
ExpressionLoop(toks, left, pos, minPrec) ==
    LET p == Parser_prec(toks, pos) IN
    IF p = PrecPanic THEN PPanic(pos)
    ELSE IF p >= minPrec /\ p # PrecEnd THEN
        LET r == Parser_infix_expr(toks, left, pos) IN
        IF r.st # "ok" THEN r ELSE ExpressionLoop(toks, r.e, r.pos, minPrec)
    ELSE POk(left, pos)

\* Parser::expression.
Parser_expression(toks, pos, minPrec) ==
    LET l == Parser_literal(toks, pos) IN
    IF l.st # "ok" THEN l ELSE ExpressionLoop(toks, l.e, l.pos, minPrec)

\* Parser::expr: an expression statement and what may follow it.
Parser_expr(toks, pos) ==
    LET r == Parser_expression(toks, pos, PrecNone) IN
    IF r.st # "ok" THEN r
    ELSE IF toks[r.pos].k = "Newline" THEN POk(StmtExpr(r.e), Parser_consume(toks, r.pos))
    ELSE IF toks[r.pos].k \in {"Eof", "RBrace"} THEN POk(StmtExpr(r.e), r.pos)
    ELSE PPanic(r.pos)

\* Parser::class taking no token at all.
Parser_class_NoConsume(toks, pos) == POk(StmtClass(toks[pos].s), pos)

\* Parser::class: the keyword, the name, then two tokens taken unchecked.
Parser_class(toks, pos) ==
    LET r == Parser_identifier(toks, Parser_consume(toks, pos)) IN
    IF r.st # "ok" THEN r
    ELSE POk(StmtClass(r.e), Parser_consume(toks, Parser_consume(toks, r.pos)))

\* Parser::statement.
Parser_statement(toks, pos) ==
    IF toks[pos].k = "Keyword"
    THEN IF toks[pos].s = "Class" THEN Parser_class(toks, pos) ELSE PPanic(pos)
    ELSE Parser_expr(toks, pos)

\* Parser::parse: statements until the current token is Eof.  fuel bounds the
\* unfolding; a loop that stops consuming is reported as "hang".
RECURSIVE ParseLoop(_, _, _, _)
ParseLoop(toks, pos, nodes, fuel) ==
    IF toks[pos].k = "Eof" THEN [st |-> "ok", e |-> nodes, pos |-> pos]
    ELSE IF fuel = 0 THEN [st |-> "hang", e |-> nodes, pos |-> pos]
    ELSE LET r == Parser_statement(toks, pos) IN
         IF r.st # "ok" THEN [st |-> r.st, e |-> <<>>, pos |-> r.pos]
         ELSE ParseLoop(toks, r.pos, Append(nodes, r.e), fuel - 1)

Parser_parse(toks) ==
    IF Len(toks) = 0 THEN PPanic(0) ELSE ParseLoop(toks, 1, <<>>, Len(toks) + 1)

\* Parser::parse_ast.
Parser_parse_ast(toks) == Parser_parse(toks)

\* ------------------------------------------------------------------ chunk
\* Instruction: an opcode and at most one scalar operand.  An index operand
\* is 0-based as in the source: it names variables[index + 1] here.
Inst(op, n) == [op |-> op, n |-> n]

\* Chunk::new.
Chunk_new == [instructions |-> <<>>, variables |-> <<>>]

\* Chunk::add_variable returning the length after the push.
Chunk_add_variable_LenIndex(chunk, s) ==
    [chunk |-> [chunk EXCEPT !.variables = Append(@, s)],
     index |-> Len(chunk.variables) + 1]

\* Chunk::add_variable: push the name, return the index of the new entry.
Chunk_add_variable(chunk, s) ==
    [chunk |-> [chunk EXCEPT !.variables = Append(@, s)],
     index |-> Len(chunk.variables) + 1 - 1]

\* ------------------------------------------------------------------ compiler
\* The compiler's functions take the Compiler's chunk and return
\* [st, chunk]: st is "ok", or "panic" when a todo!() is reached.
COk(chunk) == [st |-> "ok", chunk |-> chunk]
CPanic(chunk) == [st |-> "panic", chunk |-> chunk]

\* Compiler::emit_inst.
Compiler_emit_inst(chunk, inst) == [chunk EXCEPT !.instructions = Append(@, inst)]

\* Compiler::emit_return.
Compiler_emit_return(chunk) == Compiler_emit_inst(chunk, Inst("Halt", 0))

\* Compiler::class without the DefineGlobal.
Compiler_class_NoDefine(chunk, name) ==
    LET a == Chunk_add_variable(chunk, name) IN
    COk(Compiler_emit_inst(a.chunk, Inst("Class", a.index)))

\* Compiler::class.
Compiler_class(chunk, name) ==
    LET a == Chunk_add_variable(chunk, name) IN
    COk(Compiler_emit_inst(Compiler_emit_inst(a.chunk, Inst("Class", a.index)),
                           Inst("DefineGlobal", a.index)))

\* Compiler::identifier.
Compiler_identifier(chunk, name) ==
    LET a == Chunk_add_variable(chunk, name) IN
    COk(Compiler_emit_inst(a.chunk, Inst("GetGlobal", a.index)))

\* Compiler::integer and Compiler::nil.
Compiler_integer(chunk, v) == COk(Compiler_emit_inst(chunk, Inst("Push", v)))
Compiler_nil(chunk) == COk(Compiler_emit_inst(chunk, Inst("LoadNil", 0)))

\* Compiler::literal.
Compiler_literal(chunk, lit) ==
    IF lit.lit = "Integer" THEN Compiler_integer(chunk, lit.n)
    ELSE IF lit.lit = "Nil" THEN Compiler_nil(chunk)
    ELSE CPanic(chunk)

RECURSIVE Compiler_expr(_, _)

\* Compiler::binary_expr: both operands, then Call; the operator is dropped.
Compiler_binary_expr(chunk, left, right) ==
    LET l == Compiler_expr(chunk, left) IN
    IF l.st # "ok" THEN l
    ELSE LET r == Compiler_expr(l.chunk, right) IN
         IF r.st # "ok" THEN r
         ELSE COk(Compiler_emit_inst(r.chunk, Inst("Call", 0)))

\* Compiler::dot_expr.
Compiler_dot_expr(chunk, object, property) ==
    LET o == Compiler_expr(chunk, object) IN
    IF o.st # "ok" THEN o
    ELSE IF property.t = "Identifier"
    THEN LET a == Chunk_add_variable(o.chunk, property.s) IN
         COk(Compiler_emit_inst(a.chunk, Inst("GetProperty", a.index)))
    ELSE o

\* Compiler::call: the callee, then Call; the arguments are not compiled.
Compiler_call(chunk, callee) ==
    LET c == Compiler_expr(chunk, callee) IN
    IF c.st # "ok" THEN c
    ELSE COk(Compiler_emit_inst(c.chunk, Inst("Call", 0)))

\* Compiler::expr.
Compiler_expr(chunk, e) ==
    CASE e.t = "Dot" -> Compiler_dot_expr(chunk, e.object, e.property)
      [] e.t = "Literal" -> Compiler_literal(chunk, e)
      [] e.t = "BinExpr" -> Compiler_binary_expr(chunk, e.left, e.right)
      [] e.t = "Identifier" -> Compiler_identifier(chunk, e.s)
      [] e.t = "Call" -> Compiler_call(chunk, e.callee)
      [] e.t = "UnaryExpr" -> CPanic(chunk)

\* Compiler::var_declartion.
Compiler_var_declartion(chunk, id, init) ==
    LET i == Compiler_expr(chunk, init) IN
    IF i.st # "ok" THEN i
    ELSE LET a == Chunk_add_variable(i.chunk, id) IN
         COk(Compiler_emit_inst(a.chunk, Inst("DefineGlobal", a.index)))

\* Compiler::expression keeping the statement's value on the stack.
Compiler_expression_NoPop(chunk, e) == Compiler_expr(chunk, e)

\* Compiler::expression: an expression statement ends in Pop.
Compiler_expression(chunk, e) ==
    LET r == Compiler_expr(chunk, e) IN
    IF r.st # "ok" THEN r
    ELSE COk(Compiler_emit_inst(r.chunk, Inst("Pop", 0)))

\* One arm of the match in Compiler::run.
Compiler_stmt(chunk, node) ==
    CASE node.t = "Class" -> Compiler_class(chunk, node.name)
      [] node.t = "VarDecl" -> Compiler_var_declartion(chunk, node.id, node.init)
      [] node.t = "Expr" -> Compiler_expression(chunk, node.expr)

RECURSIVE Compiler_nodes(_, _, _)
\* The for loop of Compiler::run over ast.nodes, from node i on.
Compiler_nodes(chunk, nodes, i) ==
    IF i > Len(nodes) THEN COk(chunk)
    ELSE LET r == Compiler_stmt(chunk, nodes[i]) IN
         IF r.st # "ok" THEN r ELSE Compiler_nodes(r.chunk, nodes, i + 1)

\* Compiler::run on a Compiler whose chunk is `chunk`: the statements, then
\* Halt.  The result's chunk is both the Compiler's chunk afterwards and the
\* clone that is returned.
Compiler_run(chunk, nodes) ==
    LET r == Compiler_nodes(chunk, nodes, 1) IN
    IF r.st # "ok" THEN r ELSE COk(Compiler_emit_return(r.chunk))

\* ------------------------------------------------------------------ values
\* value.rs: enum Value.  n is the payload of Integer and Bool, r the
\* reference (Rc) of Class and Instance and the receiver of Method, f the
\* InstanceFun of Method.  Class and Instance objects live in the heaps
\* `classes` and `instances`; a reference is an index into them.
NoFun == [name |-> "", op |-> "", v |-> 0]
VInt(n) == [k |-> "Integer", n |-> n, r |-> 0, f |-> NoFun]
VBool(b) == [k |-> "Bool", n |-> b, r |-> 0, f |-> NoFun]
VNil == [k |-> "Nil", n |-> 0, r |-> 0, f |-> NoFun]
VClass(id) == [k |-> "Class", n |-> 0, r |-> id, f |-> NoFun]
VInstance(id) == [k |-> "Instance", n |-> 0, r |-> id, f |-> NoFun]
VMethod(bound) == [k |-> "Method", n |-> 0, r |-> bound.receiver, f |-> bound.function]

\* InstanceValue::into_value, for the Integer operand of Push.
InstanceValue_into_value(n) == VInt(n)

\* The empty method table.
NoMethods == [m \in {} |-> NoFun]

\* Class::new: a new Class object at the end of the heap.
Class_new(cls, name) == Append(cls, [name |-> name, methods |-> NoMethods])

\* InstanceFun::new.
InstanceFun_new(name, fun) == [name |-> name, op |-> fun.op, v |-> fun.v]

\* Class::add_method: insert (or replace) the method under its name.
Class_add_method(cls, id, name, fun) ==
    [cls EXCEPT ![id].methods =
        [m \in DOMAIN @ \cup {name} |-> IF m = name THEN InstanceFun_new(name, fun) ELSE @[m]]]

\* Instance::new (Class::instance): a new Instance with no fields.
Instance_new(insts, class) == Append(insts, [class |-> class, fields |-> <<>>])

\* BoundMethod::new.
BoundMethod_new(receiver, function) == [receiver |-> receiver, function |-> function]

\* Instance::bind: look the name up in the receiver's class; unwrap() panics
\* when the class has no such method.
Instance_bind(cls, insts, receiver, name) ==
    LET methods == cls[insts[receiver].class].methods IN
    IF name \in DOMAIN methods
    THEN [st |-> "ok", bound |-> BoundMethod_new(receiver, methods[name])]
    ELSE [st |-> "panic", bound |-> BoundMethod_new(receiver, NoFun)]

\* The host's native methods, fn(Rc<Instance>, Vec<Value>) -> Value:
\*   append: this.fields_mut().push(Value::Integer(v)); Value::Nil
\*   incr:   if let Value::Integer(v) = &mut this.fields_mut()[0] { *v += 1 }; Value::Nil
\*   sound:  Value::Nil
NativeAppend(v) == [op |-> "append", v |-> v]
NativeIncr == [op |-> "incr", v |-> 0]
NativeSound == [op |-> "sound", v |-> 0]

Native_call(insts, receiver, fun) ==
    CASE fun.op = "append" ->
           [st |-> "ok", ret |-> VNil,
            instances |-> [insts EXCEPT ![receiver].fields = Append(@, VInt(fun.v))]]
      [] fun.op = "incr" ->
           IF Len(insts[receiver].fields) = 0
           THEN [st |-> "panic", ret |-> VNil, instances |-> insts]
           ELSE IF insts[receiver].fields[1].k = "Integer"
           THEN [st |-> "ok", ret |-> VNil,
                 instances |-> [insts EXCEPT ![receiver].fields[1].n = @ + 1]]
           ELSE [st |-> "ok", ret |-> VNil, instances |-> insts]
      [] OTHER -> [st |-> "ok", ret |-> VNil, instances |-> insts]

\* BoundMethod::call on a copy of the receiver: the callee's writes are lost.
BoundMethod_call_OnCopy(insts, bound) ==
    [Native_call(insts, bound.receiver, bound.function) EXCEPT !.instances = insts]

\* BoundMethod::call: (self.function.fun)(self.receiver.clone(), args).  The
\* receiver is the shared Instance, so the callee's writes land in the heap.
BoundMethod_call(insts, bound) == Native_call(insts, bound.receiver, bound.function)

\* The bounds on field growth: a call that would pass them is not taken.
NativeWithinBounds(insts, bound) ==
    /\ bound.function.op = "append" => Len(insts[bound.receiver].fields) < MaxFields
    /\ (bound.function.op = "incr" /\ Len(insts[bound.receiver].fields) > 0)
          => insts[bound.receiver].fields[1].n < MaxInt

\* ------------------------------------------------------------------ scope
\* State::new.
State_new == [n \in {} |-> VNil]

\* State::add that keeps the first binding of a name.
State_add_KeepFirst(g, name, value) ==
    [n \in DOMAIN g \cup {name} |-> IF n \in DOMAIN g THEN g[n] ELSE value]

\* State::add: HashMap::insert.
State_add(g, name, value) ==
    [n \in DOMAIN g \cup {name} |-> IF n = name THEN value ELSE g[n]]

\* State::get::<Value>: expect() panics when the name is not bound.
State_get(g, name) ==
    IF name \in DOMAIN g THEN [st |-> "ok", v |-> g[name]] ELSE [st |-> "panic", v |-> VNil]

\* ------------------------------------------------------------------ stack
\* Stack::pop.
Stack_pop(stk) ==
    IF Len(stk) = 0 THEN [st |-> "err", v |-> VNil, stack |-> stk]
    ELSE [st |-> "ok", v |-> stk[Len(stk)], stack |-> SubSeq(stk, 1, Len(stk) - 1)]

\* Stack::push and Stack::clear.
Stack_push(stk, v) == Append(stk, v)
Stack_clear(stk) == <<>>

\* ------------------------------------------------------------------ vm
\* The result of one instruction's handler: st is "ok", "err" (a VmError
\* returned through ?) or "panic"; arg is the kind of the value it popped.
VmStep(st, fault, stk, g, cls, insts, arg) ==
    [st |-> st, fault |-> fault, stack |-> stk, globals |-> g,
     classes |-> cls, instances |-> insts, arg |-> arg]

\* Vm::reset: the stack and the instruction pointer; the globals stay.
Vm_reset(stk, i) == [stack |-> Stack_clear(stk), ip |-> 0]

\* Vm::op_push.
Vm_op_push(stk, g, cls, insts, n) ==
    VmStep("ok", "", Stack_push(stk, InstanceValue_into_value(n)), g, cls, insts, "")

\* The Pop arm of Vm::run.
Vm_op_pop(stk, g, cls, insts) ==
    LET p == Stack_pop(stk) IN
    IF p.st # "ok" THEN VmStep("err", "StackEmpty", stk, g, cls, insts, "")
    ELSE VmStep("ok", "", p.stack, g, cls, insts, p.v.k)

\* Vm::op_get_prop: a popped value that is no Instance is dropped and the
\* handler returns Ok(()).
Vm_op_get_prop(stk, g, cls, insts, name) ==
    LET p == Stack_pop(stk) IN
    IF p.st # "ok" THEN VmStep("err", "StackEmpty", stk, g, cls, insts, "")
    ELSE IF p.v.k = "Instance" THEN
        LET b == Instance_bind(cls, insts, p.v.r, name) IN
        IF b.st # "ok" THEN VmStep("panic", "NoSuchMethod", p.stack, g, cls, insts, p.v.k)
        ELSE VmStep("ok", "", Stack_push(p.stack, VMethod(b.bound)), g, cls, insts, p.v.k)
    ELSE VmStep("ok", "", p.stack, g, cls, insts, p.v.k)

\* Vm::op_call taking any value: the popped value is dropped, nothing is
\* constructed, invoked or refused.
Vm_op_call_AnyValue(stk, g, cls, insts) ==
    LET p == Stack_pop(stk) IN
    IF p.st # "ok" THEN VmStep("err", "StackEmpty", stk, g, cls, insts, "")
    ELSE VmStep("ok", "", p.stack, g, cls, insts, p.v.k)

\* Vm::op_call.
Vm_op_call(stk, g, cls, insts) ==
    LET p == Stack_pop(stk) IN
    IF p.st # "ok" THEN VmStep("err", "StackEmpty", stk, g, cls, insts, "")
    ELSE IF p.v.k = "Class" THEN
        VmStep("ok", "", Stack_push(p.stack, VInstance(Len(insts) + 1)), g, cls,
               Instance_new(insts, p.v.r), p.v.k)
    ELSE IF p.v.k = "Method" THEN
        LET c == BoundMethod_call(insts, BoundMethod_new(p.v.r, p.v.f)) IN
        IF c.st # "ok" THEN VmStep("panic", "NativePanic", p.stack, g, cls, insts, p.v.k)
        ELSE VmStep("ok", "", Stack_push(p.stack, c.ret), g, cls, c.instances, p.v.k)
    ELSE VmStep("err", "NotCallable", p.stack, g, cls, insts, p.v.k)

\* The GetGlobal arm of Vm::run.
Vm_op_get_global(stk, g, cls, insts, name) ==
    LET v == State_get(g, name) IN
    IF v.st # "ok" THEN VmStep("panic", "NameUnbound", stk, g, cls, insts, "")
    ELSE VmStep("ok", "", Stack_push(stk, v.v), g, cls, insts, "")

\* The DefineGlobal arm: pop the top, bind it to the name (overwrite).
Vm_op_define_global(stk, g, cls, insts, name) ==
    LET p == Stack_pop(stk) IN
    IF p.st # "ok" THEN VmStep("err", "StackEmpty", stk, g, cls, insts, "")
    ELSE VmStep("ok", "", p.stack, State_add(g, name, p.v), cls, insts, p.v.k)

\* The Class arm: construct a new empty Class with the name, push it.
Vm_op_class(stk, g, cls, insts, name) ==
    VmStep("ok", "", Stack_push(stk, VClass(Len(cls) + 1)), g, Class_new(cls, name), insts, "")

\* The LoadNil arm: push Nil.
Vm_op_load_nil(stk, g, cls, insts) ==
    VmStep("ok", "", Stack_push(stk, VNil), g, cls, insts, "")

\* ------------------------------------------------------------------ inputs
KwClass == [k |-> "Keyword", n |-> 0, s |-> "Class"]
KwVar == [k |-> "Keyword", n |-> 0, s |-> "Var"]

\* The scripts the host passes to Thrush::exec, as token vectors.
ScriptClassC == <<KwClass, TIdent("C"), Tok("LBrace"), Tok("RBrace"), TEof>>
ScriptClassD == <<KwClass, TIdent("D"), Tok("LBrace"), Tok("RBrace"), TEof>>
ScriptVarX == <<KwVar, TIdent("x"), Tok("Assign"), TIdent("C"), Tok("LParen"), Tok("RParen"), TEof>>
Scripts ==
    << ScriptClassC,                                             \* class C {}
       ScriptClassD,                                             \* class D {}
       ScriptVarX,                                               \* var x = C()
       <<TInt(1), TEof>>,                                        \* 1
       <<TIdent("C"), Tok("LParen"), Tok("RParen"), TEof>>,      \* C()
       <<TInt(1), Tok("Plus"), TIdent("C"), TEof>>,              \* 1 + C
       <<TIdent("x"), TEof>>,                                    \* x
       <<TInt(1), Tok("Plus"), TInt(2), TEof>>,                  \* 1 + 2
       <<Tok("RParen"), TEof>>,                                  \* )
       <<KwClass, TIdent("C"), Tok("LBrace"), Tok("RBrace"),
         TInt(1), Tok("LParen"), Tok("RParen"), TEof>>,          \* class C {} 1()
       <<TInt(1), Tok("Newline"), TInt(2), TEof>> >>             \* 1 <newline> 2

\* The ASTs the host compiles and hands to Vm::execute itself.
ProgVarX == <<StmtVarDecl("x", CallExpr(Identifier("C")))>>
Programs ==
    << <<>>,
       ProgVarX,
       <<StmtExpr(CallExpr(DotExpr(Identifier("x"), Identifier("m"))))>>,
       <<StmtExpr(DotExpr(Literal("Integer", 1), Identifier("m")))>>,
       <<StmtExpr(DotExpr(Identifier("x"), Identifier("m")))>>,
       <<StmtExpr(UnaryExpr("Sub", Literal("Integer", 1)))>>,
       <<StmtVarDecl("x", Literal("Nil", 0))>>,
       <<StmtClass("C"), StmtVarDecl("x", CallExpr(Identifier("C"))),
         StmtExpr(BinExpr("Add", Literal("Integer", 1), Identifier("C")))>>,
       <<StmtExpr(Literal("Integer", 1)), StmtExpr(Literal("Integer", 2))>>,
       <<StmtExpr(Literal("Integer", 1)), StmtExpr(Literal("Float", 0))>>,
       <<StmtExpr(CallExpr(Literal("Integer", 1)))>> >>

\* What the host registers: globals with State::add, methods with add_method.
HostNames == {"x"}
HostValues == {VInt(34)}
ClassNames == {"C", "D"}
MethodNames == {"m"}
Natives == {NativeSound, NativeIncr}

\* ------------------------------------------------------------------ state
VARIABLES
    globals,    \* Vm.state.globals: name -> Value
    classes,    \* the Class objects: [name, methods]
    instances,  \* the Instance objects: [class, fields]
    stack,      \* Vm.stack
    ip,         \* Vm.ip
    chunk,      \* Vm.chunk
    status,     \* "idle", "running" (inside Vm::run), "returned" or "panicked"
    mode,       \* who called Vm::execute: "exec" (Thrush::_exec) or "execute" (the host)
    outcome,    \* how the last call ended: "none", "ok", "err" or "panic"
    fault,      \* what ended it, "" while nothing has
    pre,        \* the globals when the last call began
    prog,       \* the statements of the chunk being run
    marks,      \* marks[k]: the instructions compiled for statements 1..k
    ipStart,    \* ip when the last call began
    base,       \* the stack depth when the last call began
    last,       \* the instruction executed last and the kind of value it popped
    script,     \* the script of the last exec call (0: none)
    toks,       \* the token vector given to the parser
    presult,    \* what Parser::parse returned for it
    compiler,   \* the chunk of a Compiler the host keeps
    compiled,   \* the Chunk its last run returned, which AST it was given, and
                \* the names the ASTs given to this Compiler refer to
    bound,      \* the BoundMethods the host holds
    hist        \* per Instance: the calls made on it through BoundMethods

heapVars == <<classes, instances>>
vmVars == <<globals, stack, ip, chunk, status, mode, outcome, fault>>
ghostVars == <<pre, prog, marks, ipStart, base, last, script>>
parserVars == <<toks, presult>>
compVars == <<compiler, compiled>>
objVars == <<bound, hist>>
vars == <<heapVars, vmVars, ghostVars, parserVars, compVars, objVars>>

NoLast == [op |-> "", arg |-> ""]
NoResult == [st |-> "none", e |-> <<>>, pos |-> 0]
NoChunk == [st |-> "none", chunk |-> Chunk_new, ast |-> 0, names |-> <<>>]

InitHeap == classes = <<>> /\ instances = <<>>
InitVm ==
    /\ globals = State_new /\ stack = <<>> /\ ip = 0 /\ chunk = Chunk_new
    /\ status = "idle" /\ mode = "none" /\ outcome = "none" /\ fault = ""
InitGhost ==
    /\ pre = State_new /\ prog = <<>> /\ marks = <<>> /\ ipStart = 0 /\ base = 0
    /\ last = NoLast /\ script = 0
InitParser == toks = <<TEof>> /\ presult = NoResult
InitComp == compiler = Chunk_new /\ compiled = NoChunk
InitObj == bound = <<>> /\ hist = <<>>

\* Thrush::new: Vm::new, State::new, Stack::new.
Init == InitHeap /\ InitVm /\ InitGhost /\ InitParser /\ InitComp /\ InitObj

\* marks[k]: how many instructions statements 1..k compile to.
RECURSIVE MarksOf(_, _, _)
MarksOf(nodes, k, acc) ==
    IF k > Len(nodes) THEN acc
    ELSE MarksOf(nodes, k + 1,
                 Append(acc, Len(Compiler_nodes(Chunk_new, SubSeq(nodes, 1, k), 1).chunk.instructions)))

\* ------------------------------------------------------------------ actions
\* The front of a call: parse (exec only) and compile with a new Compiler,
\* then Vm::execute stores the chunk and enters Vm::run.  A parse error is
\* returned to the host; a panic ends the session.
Begin(m, i, front) ==
    LET c == IF front.st = "ok" THEN Compiler_run(Chunk_new, front.e) ELSE CPanic(Chunk_new)
        ok == front.st = "ok" /\ c.st = "ok"
    IN
    /\ status = "idle"
    /\ mode' = m
    /\ script' = i
    /\ pre' = globals
    /\ ipStart' = ip
    /\ base' = Len(stack)
    /\ last' = NoLast
    /\ chunk' = IF ok THEN c.chunk ELSE chunk
    /\ prog' = IF ok THEN front.e ELSE <<>>
    /\ marks' = IF ok THEN MarksOf(front.e, 1, <<>>) ELSE <<>>
    /\ status' = IF ok THEN "running" ELSE IF front.st = "err" THEN "returned" ELSE "panicked"
    /\ outcome' = IF ok THEN "none" ELSE IF front.st = "err" THEN "err" ELSE "panic"
    /\ fault' = IF ok THEN "" ELSE IF front.st = "err" THEN "SyntaxError"
                ELSE IF front.st = "panic" THEN "ParserPanic" ELSE "CompilerPanic"
    /\ UNCHANGED <<globals, stack, ip, heapVars, parserVars, compVars, objVars>>

\* Thrush::exec / _exec up to the call of Vm::run.
Exec(i) == Begin("exec", i, Parser_parse_ast(Scripts[i]))

\* The host compiles an AST with a new Compiler and calls Vm::execute.
HostExecute(j) == Begin("execute", 0, POk(Programs[j], 0))

\* Vm::get_next_inst finds an instruction to fetch.
Fetching(op) ==
    /\ status = "running"
    /\ ip + 1 <= Len(chunk.instructions)
    /\ chunk.instructions[ip + 1].op = op

CurInst == chunk.instructions[ip + 1]
CurName == chunk.variables[CurInst.n + 1]

\* One turn of the loop of Vm::run with a get_next_inst that leaves ip where
\* it is.
Step_NoAdvance(op, r) ==
    /\ ip' = ip
    /\ stack' = r.stack
    /\ globals' = r.globals
    /\ classes' = r.classes
    /\ instances' = r.instances
    /\ last' = [op |-> op, arg |-> r.arg]
    /\ fault' = r.fault
    /\ status' = IF r.st = "ok" THEN "running"
                 ELSE IF r.st = "err" /\ mode = "execute" THEN "returned" ELSE "panicked"
    /\ outcome' = IF r.st = "ok" THEN outcome
                  ELSE IF r.st = "err" /\ mode = "execute" THEN "err" ELSE "panic"
    /\ UNCHANGED <<chunk, mode, pre, prog, marks, ipStart, base, script>>
    /\ UNCHANGED <<parserVars, compVars, objVars>>

\* One turn of the loop of Vm::run with handler result r: get_next_inst has
\* advanced ip; Ok goes on; Err leaves run, and _exec unwraps it (a panic)
\* while the host's own call of execute gets it back.
Step(op, r) ==
    /\ ip' = ip + 1
    /\ stack' = r.stack
    /\ globals' = r.globals
    /\ classes' = r.classes
    /\ instances' = r.instances
    /\ last' = [op |-> op, arg |-> r.arg]
    /\ fault' = r.fault
    /\ status' = IF r.st = "ok" THEN "running"
                 ELSE IF r.st = "err" /\ mode = "execute" THEN "returned" ELSE "panicked"
    /\ outcome' = IF r.st = "ok" THEN outcome
                  ELSE IF r.st = "err" /\ mode = "execute" THEN "err" ELSE "panic"
    /\ UNCHANGED <<chunk, mode, pre, prog, marks, ipStart, base, script>>
    /\ UNCHANGED <<parserVars, compVars, objVars>>

OpPush ==
    /\ Fetching("Push")
    /\ Len(stack) < MaxStack
    /\ Step("Push", Vm_op_push(stack, globals, classes, instances, CurInst.n))

OpPop ==
    /\ Fetching("Pop")
    /\ Step("Pop", Vm_op_pop(stack, globals, classes, instances))

OpCall ==
    /\ Fetching("Call")
    /\ Len(stack) > 0 /\ stack[Len(stack)].k = "Class" => Len(instances) < MaxInstances
    /\ Len(stack) > 0 /\ stack[Len(stack)].k = "Method" =>
          NativeWithinBounds(instances, BoundMethod_new(stack[Len(stack)].r, stack[Len(stack)].f))
    /\ Step("Call", Vm_op_call(stack, globals, classes, instances))

OpGetProp ==
    /\ Fetching("GetProperty")
    /\ Step("GetProperty", Vm_op_get_prop(stack, globals, classes, instances, CurName))

OpGetGlobal ==
    /\ Fetching("GetGlobal")
    /\ Len(stack) < MaxStack
    /\ Step("GetGlobal", Vm_op_get_global(stack, globals, classes, instances, CurName))

OpDefineGlobal ==
    /\ Fetching("DefineGlobal")
    /\ Step("DefineGlobal", Vm_op_define_global(stack, globals, classes, instances, CurName))

OpClass ==
    /\ Fetching("Class")
    /\ Len(stack) < MaxStack
    /\ Len(classes) < MaxClasses
    /\ Step("Class", Vm_op_class(stack, globals, classes, instances, CurName))

OpLoadNil ==
    /\ Fetching("LoadNil")
    /\ Len(stack) < MaxStack
    /\ Step("LoadNil", Vm_op_load_nil(stack, globals, classes, instances))

\* Halt leaves Vm::run with Ok(()); _exec then calls Vm::reset and returns
\* Ok(()), the host's own call of execute just returns.
OpHalt ==
    /\ Fetching("Halt")
    /\ LET z == Vm_reset(stack, ip + 1) IN
       /\ stack' = IF mode = "exec" THEN z.stack ELSE stack
       /\ ip' = IF mode = "exec" THEN z.ip ELSE ip + 1
    /\ status' = "returned"
    /\ outcome' = "ok"
    /\ last' = [op |-> "Halt", arg |-> ""]
    /\ UNCHANGED <<globals, chunk, mode, fault, heapVars>>
    /\ UNCHANGED <<pre, prog, marks, ipStart, base, script>>
    /\ UNCHANGED <<parserVars, compVars, objVars>>

\* The host has the result of its call and goes on.  After its own call of
\* Vm::execute it calls vm_mut().reset(), as _exec does.  Vm.chunk is dead
\* until the next execute stores a new one, so it is forgotten here, with
\* the record of the call.
HostResume ==
    /\ status = "returned"
    /\ LET z == Vm_reset(stack, ip) IN
       /\ stack' = IF mode = "execute" THEN z.stack ELSE stack
       /\ ip' = IF mode = "execute" THEN z.ip ELSE ip
    /\ status' = "idle" /\ mode' = "none" /\ outcome' = "none" /\ fault' = ""
    /\ chunk' = Chunk_new
    /\ pre' = State_new /\ prog' = <<>> /\ marks' = <<>> /\ ipStart' = 0 /\ base' = 0
    /\ last' = NoLast /\ script' = 0
    /\ UNCHANGED <<globals, heapVars, parserVars, compVars, objVars>>

\* The host calls globals().add(name, value).
HostAdd(name, value) ==
    /\ status = "idle"
    /\ globals' = State_add(globals, name, value)
    /\ UNCHANGED <<stack, ip, chunk, status, mode, outcome, fault, heapVars, ghostVars>>
    /\ UNCHANGED <<parserVars, compVars, objVars>>

\* The host calls globals().get::<Rc<Class>>(name)?.add_method(m, fun).
HostAddMethod(name, m, fun) ==
    /\ status = "idle"
    /\ name \in DOMAIN globals
    /\ globals[name].k = "Class"
    /\ classes' = Class_add_method(classes, globals[name].r, m, fun)
    /\ UNCHANGED <<instances, vmVars, ghostVars, parserVars, compVars, objVars>>

Next ==
    \/ \E i \in 1..Len(Scripts) : Exec(i)
    \/ \E j \in 1..Len(Programs) : HostExecute(j)
    \/ OpPush \/ OpPop \/ OpCall \/ OpGetProp \/ OpGetGlobal
    \/ OpDefineGlobal \/ OpClass \/ OpLoadNil \/ OpHalt
    \/ HostResume
    \/ \E name \in HostNames, value \in HostValues : HostAdd(name, value)
    \/ \E name \in ClassNames, m \in MethodNames, fun \in Natives : HostAddMethod(name, m, fun)

Spec == Init /\ [][Next]_vars

\* ------------------------------------------------------------------ the run to its end
\* The same program, with the bounds on the heap and the stack applied when
\* a call begins instead of in the middle of a run: a call is made only if
\* its chunk can run to its end within the bounds.

\* How many instructions of insts, from i on, have their opcode in ops.
RECURSIVE CountOps(_, _, _)
CountOps(insts, ops, i) ==
    IF i > Len(insts) THEN 0
    ELSE (IF insts[i].op \in ops THEN 1 ELSE 0) + CountOps(insts, ops, i + 1)

\* The deepest the stack can get while insts run from i on, d being the
\* depth before instruction i and m the deepest so far.
RECURSIVE MaxDepth(_, _, _, _)
MaxDepth(insts, i, d, m) ==
    IF i > Len(insts) THEN m
    ELSE LET e == IF insts[i].op \in {"Push", "GetGlobal", "Class", "LoadNil"} THEN d + 1
                  ELSE IF insts[i].op \in {"Pop", "DefineGlobal"} /\ d > 0 THEN d - 1
                  ELSE d
         IN MaxDepth(insts, i + 1, e, IF e > m THEN e ELSE m)

\* The classes the runs of this specification may construct in all.
MaxRunClasses == 1

Fits(c) ==
    /\ Len(classes) + CountOps(c.instructions, {"Class"}, 1) <= MaxRunClasses
    /\ Len(instances) + CountOps(c.instructions, {"Call"}, 1) <= MaxInstances
    /\ MaxDepth(c.instructions, 1, Len(stack), Len(stack)) <= MaxStack

ExecFits(i) == Exec(i) /\ Fits(chunk')

HostExecuteFits(j) == HostExecute(j) /\ Fits(chunk')

\* The turns of the loop of Vm::run.
RunStep ==
    \/ OpPush \/ OpPop \/ OpCall \/ OpGetProp \/ OpGetGlobal
    \/ OpDefineGlobal \/ OpClass \/ OpLoadNil \/ OpHalt

NextRun ==
    \/ \E i \in 1..Len(Scripts) : ExecFits(i)
    \/ \E j \in 1..Len(Programs) : HostExecuteFits(j)
    \/ RunStep
    \/ HostResume
    \/ \E name \in HostNames, value \in HostValues : HostAdd(name, value)
    \/ \E name \in ClassNames, m \in MethodNames, fun \in Natives : HostAddMethod(name, m, fun)

\* Vm::run is a loop that nothing suspends: a turn that can be taken is taken.
SpecRun == Init /\ [][NextRun]_vars /\ WF_vars(RunStep)

\* ------------------------------------------------------------------ compiler, kept
\* The host keeps one Compiler and calls run on it again and again.

\* The names an expression refers to, each with the instruction it is
\* compiled to, in the order of the AST.
RECURSIVE ExprRefs(_)
ExprRefs(e) ==
    CASE e.t = "Identifier" -> <<[op |-> "GetGlobal", name |-> e.s]>>
      [] e.t = "Dot" ->
           ExprRefs(e.object) \o
           (IF e.property.t = "Identifier"
            THEN <<[op |-> "GetProperty", name |-> e.property.s]>> ELSE <<>>)
      [] e.t = "BinExpr" -> ExprRefs(e.left) \o ExprRefs(e.right)
      [] e.t = "Call" -> ExprRefs(e.callee)
      [] e.t = "UnaryExpr" -> ExprRefs(e.value)
      [] OTHER -> <<>>

StmtRefs(node) ==
    CASE node.t = "Class" ->
           <<[op |-> "Class", name |-> node.name], [op |-> "DefineGlobal", name |-> node.name]>>
      [] node.t = "VarDecl" ->
           ExprRefs(node.init) \o <<[op |-> "DefineGlobal", name |-> node.id]>>
      [] node.t = "Expr" -> ExprRefs(node.expr)

RECURSIVE ProgramRefs(_)
ProgramRefs(p) ==
    IF Len(p) = 0 THEN <<>> ELSE StmtRefs(p[1]) \o ProgramRefs(SubSeq(p, 2, Len(p)))

\* Compiler::new.
CompilerNew ==
    /\ compiler' = Chunk_new
    /\ compiled' = NoChunk
    /\ UNCHANGED <<heapVars, vmVars, ghostVars, parserVars, objVars>>

\* Compiler::run(ast) on the kept Compiler: self.chunk keeps what it emits,
\* and a clone of it is returned.
CompilerRun(j) ==
    LET r == Compiler_run(compiler, Programs[j]) IN
    /\ Len(r.chunk.instructions) <= MaxInstr
    /\ compiler' = r.chunk
    /\ compiled.st # "panic"
    /\ compiled' = [st |-> r.st, chunk |-> r.chunk, ast |-> j,
                    names |-> compiled.names \o ProgramRefs(Programs[j])]
    /\ UNCHANGED <<heapVars, vmVars, ghostVars, parserVars, objVars>>

NextCompiler ==
    \/ CompilerNew
    \/ \E j \in 1..Len(Programs) : CompilerRun(j)

SpecCompiler == Init /\ [][NextCompiler]_vars

\* ------------------------------------------------------------------ object model
\* The host works on value.rs itself, as its tests do: classes, instances
\* and BoundMethods it makes and calls.
ObjClassNames == {"Test"}
ObjNatives == {NativeAppend(1), NativeAppend(2), NativeIncr}

\* What `hist` keeps per Instance: how many append calls were made on it,
\* the integer the first of them pushed, and the incr calls made since.
NoHist == [appends |-> 0, v |-> 0, incrs |-> 0]

HistAfter(h, fun) ==
    IF fun.op = "append"
    THEN [h EXCEPT !.appends = @ + 1, !.v = IF h.appends = 0 THEN fun.v ELSE @]
    ELSE IF fun.op = "incr" THEN [h EXCEPT !.incrs = @ + 1]
    ELSE h

\* Class::new(name).
ObjClassNew(name) ==
    /\ status = "idle"
    /\ Len(classes) < MaxHostClasses
    /\ classes' = Class_new(classes, name)
    /\ UNCHANGED <<instances, vmVars, ghostVars, parserVars, compVars, objVars>>

\* class.instance().
ObjInstance(c) ==
    /\ status = "idle"
    /\ Len(instances) < MaxHostInstances
    /\ instances' = Instance_new(instances, c)
    /\ hist' = Append(hist, NoHist)
    /\ UNCHANGED <<classes, bound, vmVars, ghostVars, parserVars, compVars>>

\* class.add_method(m, fun).
ObjAddMethod(c, m, fun) ==
    /\ status = "idle"
    /\ classes' = Class_add_method(classes, c, m, fun)
    /\ UNCHANGED <<instances, vmVars, ghostVars, parserVars, compVars, objVars>>

\* BoundMethod::new(receiver.clone(), Rc::new(InstanceFun::new(m, fun))).
ObjBoundNew(i, m, fun) ==
    /\ status = "idle"
    /\ Len(bound) < MaxBound
    /\ bound' = Append(bound, BoundMethod_new(i, InstanceFun_new(m, fun)))
    /\ UNCHANGED <<hist, heapVars, vmVars, ghostVars, parserVars, compVars>>

\* Instance::bind(receiver, m): a panic when the class has no method m.
ObjBind(i, m) ==
    LET b == Instance_bind(classes, instances, i, m) IN
    /\ status = "idle"
    /\ Len(bound) < MaxBound
    /\ bound' = IF b.st = "ok" THEN Append(bound, b.bound) ELSE bound
    /\ status' = IF b.st = "ok" THEN status ELSE "panicked"
    /\ fault' = IF b.st = "ok" THEN fault ELSE "NoSuchMethod"
    /\ UNCHANGED <<globals, stack, ip, chunk, mode, outcome>>
    /\ UNCHANGED <<hist, heapVars, ghostVars, parserVars, compVars>>

\* BoundMethod::call(&bound[b], vec![]).
ObjCall(b) ==
    LET c == BoundMethod_call(instances, bound[b]) IN
    /\ status = "idle"
    /\ NativeWithinBounds(instances, bound[b])
    /\ instances' = c.instances
    /\ hist' = IF c.st = "ok"
               THEN [hist EXCEPT ![bound[b].receiver] = HistAfter(@, bound[b].function)]
               ELSE hist
    /\ status' = IF c.st = "ok" THEN status ELSE "panicked"
    /\ fault' = IF c.st = "ok" THEN fault ELSE "NativePanic"
    /\ UNCHANGED <<globals, stack, ip, chunk, mode, outcome>>
    /\ UNCHANGED <<classes, bound, ghostVars, parserVars, compVars>>

NextObject ==
    \/ \E name \in ObjClassNames : ObjClassNew(name)
    \/ \E c \in 1..Len(classes) : ObjInstance(c)
    \/ \E c \in 1..Len(classes), m \in MethodNames, fun \in ObjNatives : ObjAddMethod(c, m, fun)
    \/ \E i \in 1..Len(instances), m \in MethodNames, fun \in ObjNatives : ObjBoundNew(i, m, fun)
    \/ \E i \in 1..Len(instances), m \in MethodNames : ObjBind(i, m)
    \/ \E b \in 1..Len(bound) : ObjCall(b)

SpecObject == Init /\ [][NextObject]_vars

\* ------------------------------------------------------------------ method dispatch
\* The host adds methods to a class, binds them on its instances by name
\* and calls the BoundMethods it holds; every BoundMethod here comes from
\* Instance::bind.

\* The record of a BoundMethod::call: the name called, and whether the
\* function that ran is the method the receiver's class had under that name
\* when it ran.
CallRecord(cls, insts, b) ==
    LET methods == cls[insts[b.receiver].class].methods IN
    [op |-> "BoundMethod::call", arg |-> b.function.name,
     current |-> /\ b.function.name \in DOMAIN methods
                 /\ methods[b.function.name] = b.function]

\* BoundMethod::call(&bound[b], vec![]), with its record.
DispatchCall(b) ==
    LET c == BoundMethod_call(instances, bound[b]) IN
    /\ status = "idle"
    /\ NativeWithinBounds(instances, bound[b])
    /\ instances' = c.instances
    /\ hist' = IF c.st = "ok"
               THEN [hist EXCEPT ![bound[b].receiver] = HistAfter(@, bound[b].function)]
               ELSE hist
    /\ status' = IF c.st = "ok" THEN status ELSE "panicked"
    /\ fault' = IF c.st = "ok" THEN fault ELSE "NativePanic"
    /\ last' = IF c.st = "ok" THEN CallRecord(classes, instances, bound[b]) ELSE last
    /\ UNCHANGED <<globals, stack, ip, chunk, mode, outcome>>
    /\ UNCHANGED <<classes, bound, parserVars, compVars>>
    /\ UNCHANGED <<pre, prog, marks, ipStart, base, script>>

NextDispatch ==
    \/ \E name \in ObjClassNames : ObjClassNew(name)
    \/ \E c \in 1..Len(classes) : ObjInstance(c)
    \/ \E c \in 1..Len(classes), m \in MethodNames, fun \in ObjNatives : ObjAddMethod(c, m, fun)
    \/ \E i \in 1..Len(instances), m \in MethodNames : ObjBind(i, m)
    \/ \E b \in 1..Len(bound) : DispatchCall(b)

SpecDispatch == Init /\ [][NextDispatch]_vars

\* ------------------------------------------------------------------ parser alone
\* Every token kind of token.rs that the parser tells apart.
AllTokens ==
    { TInt(1), TIdent("C"), Tok("String"), KwClass, KwVar,
      Tok("Plus"), Tok("Hypen"), Tok("Star"), Tok("BackSlash"), Tok("Modulo"),
      Tok("Bang"), Tok("Dot"), Tok("Assign"), Tok("LParen"), Tok("RParen"),
      Tok("LBrace"), Tok("RBrace"), Tok("Newline"), TEof }

\* Operands and binary operators.
Operands == {TInt(1), TInt(2), TIdent("C")}
SumOps == {Tok("Plus"), Tok("Hypen")}
TermOps == {Tok("Star"), Tok("BackSlash"), Tok("Modulo")}
ChainTokens == Operands \cup SumOps \cup TermOps

\* The token vectors the scanner may hand over: any tokens, closed by Eof.
TokenInputs ==
    { Append(body, TEof) :
        body \in (UNION { [1..n -> AllTokens] : n \in 0..MaxTokens })
                 \cup (UNION { [1..n -> ChainTokens] : n \in 0..MaxChain }) }

InitParse ==
    /\ InitHeap /\ InitVm /\ InitGhost /\ InitComp /\ InitObj
    /\ toks \in TokenInputs
    /\ presult = NoResult

\* Parser::new(tokens).parse().
Parse ==
    /\ presult.st = "none"
    /\ presult' = Parser_parse(toks)
    /\ UNCHANGED <<toks, heapVars, vmVars, ghostVars, compVars, objVars>>

NextParser == Parse

SpecParser == InitParse /\ [][NextParser]_vars

\* ------------------------------------------------------------------ claims
\* The first instruction of statement k is instruction FirstOf(k) + 1.
FirstOf(k) == IF k = 1 THEN 0 ELSE marks[k - 1]

\* A call has ended, by returning or by a panic.
Ended == status \in {"returned", "panicked"}

\* C1: while a compiled program runs, the operand stack at every statement
\* boundary is as deep as it was when the program began.
C1_StackBalanced ==
    \A k \in 1..Len(marks) :
        (status = "running" /\ ip = marks[k]) => Len(stack) = base

\* C3: after every exec call, whatever its outcome, the operand stack is
\* empty and the instruction pointer is 0.
C3_ResetContract ==
    (mode = "exec" /\ Ended) => (stack = <<>> /\ ip = 0)

\* C4: an exec call that fails returns an error to the host (it does not
\* crash), and every global bound before the call keeps its value.
C4_ExecFailureReturnsError ==
    (mode = "exec" /\ Ended /\ outcome # "ok") =>
        /\ outcome = "err"
        /\ \A n \in DOMAIN pre : n \in DOMAIN globals /\ globals[n] = pre[n]

\* C5: GetGlobal on a name that is not bound ends the execution with an
\* error returned to the caller of Vm::execute, never with a crash.
C5_GetGlobalUnboundIsNameError ==
    fault = "NameUnbound" => (status = "returned" /\ outcome = "err")

\* C6: GetProperty on a popped value that is no Instance, or on an Instance
\* whose class lacks the method, ends the execution with an error returned
\* to the caller; it neither goes on nor crashes.
C6_GetPropertyTypedErrors ==
    /\ (last.op = "GetProperty" /\ last.arg \notin {"", "Instance"}) =>
          (status = "returned" /\ outcome = "err")
    /\ fault = "NoSuchMethod" => (status = "returned" /\ outcome = "err")

\* C7: once the instructions of a class declaration have run, the global
\* table binds the declared name to a Class of that name with no methods;
\* and no execution fails inside a class declaration.
C7_ClassDeclBindsEmptyClass ==
    \A k \in 1..Len(prog) :
        prog[k].t = "Class" =>
            /\ (status = "running" /\ ip = marks[k]) =>
                  /\ prog[k].name \in DOMAIN globals
                  /\ globals[prog[k].name].k = "Class"
                  /\ globals[prog[k].name].r \in 1..Len(classes)
                  /\ classes[globals[prog[k].name].r].name = prog[k].name
                  /\ DOMAIN classes[globals[prog[k].name].r].methods = {}
            /\ (Ended /\ fault # "") => ~(FirstOf(k) < ip /\ ip <= marks[k])

\* C7's case: a class declaration has just been executed.
C7_Witness ==
    \E k \in 1..Len(prog) :
        prog[k].t = "Class" /\ status = "running" /\ ip = marks[k] /\ ip > 0

\* C8: after `class C {}`, a later exec of `var x = C()` ends with x bound
\* to an Instance of that class C with no fields.
C8_VarDeclBindsInstance ==
    (mode = "exec" /\ Ended /\ Scripts[IF script = 0 THEN 1 ELSE script] = ScriptVarX
       /\ "C" \in DOMAIN pre /\ pre["C"].k = "Class") =>
        /\ outcome = "ok"
        /\ "x" \in DOMAIN globals
        /\ globals["x"].k = "Instance"
        /\ instances[globals["x"].r].class = pre["C"].r
        /\ instances[globals["x"].r].fields = <<>>

\* How many Halt instructions a sequence holds.
RECURSIVE HaltCount(_, _)
HaltCount(insts, i) ==
    IF i > Len(insts) THEN 0
    ELSE (IF insts[i].op = "Halt" THEN 1 ELSE 0) + HaltCount(insts, i + 1)

\* C2: every Chunk that Compiler::run returns holds exactly one Halt, and it
\* is its last instruction.
C2_ExactlyOneTrailingHalt ==
    compiled.st = "ok" =>
        /\ Len(compiled.chunk.instructions) > 0
        /\ compiled.chunk.instructions[Len(compiled.chunk.instructions)].op = "Halt"
        /\ HaltCount(compiled.chunk.instructions, 1) = 1

\* C9: on an Instance that had one append call (pushing v) and then N incr
\* calls through BoundMethods, field 0 is Integer(v + N), and every
\* BoundMethod of that receiver and every reference to it reads that.
C9_SharedMutationVisible ==
    \A i \in 1..Len(instances) :
        hist[i].appends >= 1 =>
            /\ Len(instances[i].fields) = hist[i].appends
            /\ instances[i].fields[1] = VInt(hist[i].v + hist[i].incrs)
            /\ \A b \in 1..Len(bound) :
                  bound[b].receiver = i =>
                      instances[bound[b].receiver].fields[1].n = hist[i].v + hist[i].incrs

\* C9's case: two BoundMethods on one Instance, an append call and then at
\* least two incr calls.
C9_Witness ==
    \E i \in 1..Len(instances) :
        /\ hist[i].appends = 1 /\ hist[i].incrs >= 2
        /\ \E a, b \in 1..Len(bound) :
              /\ bound[a].receiver = i /\ bound[b].receiver = i
              /\ bound[a].function.op = "append" /\ bound[b].function.op = "incr"

\* The expression an operand token parses to.
OperandExpr(tok) ==
    IF tok.k = "Integer" THEN Literal("Integer", tok.n) ELSE Identifier(tok.s)

\* In e no node of a Term operator has a Sum-operator node as a child.
RECURSIVE NoSumUnderTerm(_)
NoSumUnderTerm(e) ==
    IF e.t # "BinExpr" THEN TRUE
    ELSE /\ NoSumUnderTerm(e.left)
         /\ NoSumUnderTerm(e.right)
         /\ e.op \in {"Mul", "Div", "Rem"} =>
               /\ ~(e.left.t = "BinExpr" /\ e.left.op \in {"Add", "Sub"})
               /\ ~(e.right.t = "BinExpr" /\ e.right.op \in {"Add", "Sub"})

\* The token vector is a chain of operands and binary operators.
IsChain(ts) == \A i \in 1..(Len(ts) - 1) : ts[i] \in ChainTokens

\* C10: a Term operator binds tighter than a Sum operator: a + b * c parses
\* to Add(a, Mul(b, c)), a * b + c to Add(Mul(a, b), c), and in the parse
\* of any chain no Term node has a Sum node as an operand.
C10_TermBindsTighter ==
    presult.st # "none" =>
        /\ (Len(toks) = 6 /\ toks[1] \in Operands /\ toks[2] \in SumOps /\ toks[3] \in Operands
              /\ toks[4] \in TermOps /\ toks[5] \in Operands) =>
              /\ presult.st = "ok"
              /\ presult.e = <<StmtExpr(BinExpr(InfixOp(toks[2].k), OperandExpr(toks[1]),
                                  BinExpr(InfixOp(toks[4].k), OperandExpr(toks[3]),
                                          OperandExpr(toks[5]))))>>
        /\ (Len(toks) = 6 /\ toks[1] \in Operands /\ toks[2] \in TermOps /\ toks[3] \in Operands
              /\ toks[4] \in SumOps /\ toks[5] \in Operands) =>
              /\ presult.st = "ok"
              /\ presult.e = <<StmtExpr(BinExpr(InfixOp(toks[4].k),
                                  BinExpr(InfixOp(toks[2].k), OperandExpr(toks[1]),
                                          OperandExpr(toks[3])),
                                  OperandExpr(toks[5])))>>
        /\ (IsChain(toks) /\ presult.st = "ok") =>
              \A k \in 1..Len(presult.e) : NoSumUnderTerm(presult.e[k].expr)

\* C10's case: 1 + 2 * C has been parsed.
C10_Witness ==
    /\ toks = <<TInt(1), Tok("Plus"), TInt(2), Tok("Star"), TIdent("C"), TEof>>
    /\ presult.st = "ok"

\* The tier of a binary operator of the AST.
TierOf(op) == IF op \in {"Add", "Sub"} THEN PrecSum ELSE PrecTerm

\* In e no binary node has, as its right operand, a binary node of its own
\* tier (which is what a right-associated chain would have).
RECURSIVE NoSameTierOnRight(_)
NoSameTierOnRight(e) ==
    IF e.t # "BinExpr" THEN TRUE
    ELSE /\ NoSameTierOnRight(e.left)
         /\ NoSameTierOnRight(e.right)
         /\ ~(e.right.t = "BinExpr" /\ TierOf(e.right.op) = TierOf(e.op))

\* a op1 b op2 c with both operators of one tier.
IsSameTierChain(ts) ==
    /\ Len(ts) = 6
    /\ ts[1] \in Operands /\ ts[3] \in Operands /\ ts[5] \in Operands
    /\ \/ ts[2] \in SumOps /\ ts[4] \in SumOps
       \/ ts[2] \in TermOps /\ ts[4] \in TermOps

\* C11: binary operators are left-associative: a op1 b op2 c with op1 and
\* op2 of one tier parses to op2(op1(a, b), c), and in the parse of any
\* chain no binary node has a node of its own tier as right operand.
C11_LeftAssociative ==
    presult.st # "none" =>
        /\ IsSameTierChain(toks) =>
              /\ presult.st = "ok"
              /\ presult.e = <<StmtExpr(BinExpr(InfixOp(toks[4].k),
                                  BinExpr(InfixOp(toks[2].k), OperandExpr(toks[1]),
                                          OperandExpr(toks[3])),
                                  OperandExpr(toks[5])))>>
        /\ (IsChain(toks) /\ presult.st = "ok") =>
              \A k \in 1..Len(presult.e) : NoSameTierOnRight(presult.e[k].expr)

\* C11's case: 1 - 2 - 1 has been parsed.
C11_Witness ==
    /\ toks = <<TInt(1), Tok("Hypen"), TInt(2), Tok("Hypen"), TInt(1), TEof>>
    /\ presult.st = "ok"
    /\ presult.e[1].expr.left.t = "BinExpr"

\* The program has statements, each an integer literal expression statement.
IsLiteralProgram(p) ==
    /\ Len(p) > 0
    /\ \A k \in 1..Len(p) :
          p[k].t = "Expr" /\ p[k].expr.t = "Literal" /\ p[k].expr.lit = "Integer"

\* C12: while and after a program made only of literal expression
\* statements is executed, the global table is what it was when the
\* execution began, each statement's value is off the stack at the end of
\* the statement, and the execution ends without a fault.
C12_LiteralStatementsKeepGlobals ==
    (status # "idle" /\ IsLiteralProgram(prog)) =>
        /\ globals = pre
        /\ status # "panicked" /\ fault = ""
        /\ \A k \in 1..Len(marks) :
              (status = "running" /\ ip = marks[k]) => Len(stack) = base
        /\ status = "returned" => outcome = "ok"

\* C12's case: an exec of the literal statement `1` has returned, with a
\* global bound before it.
C12_Witness ==
    /\ mode = "exec" /\ status = "returned"
    /\ IsLiteralProgram(prog)
    /\ DOMAIN pre # {}

\* The tokens that may open a statement: those literal accepts in primary
\* position, a keyword, and the end of the input.
PrimaryTokens == {"Integer", "Ident", "LParen", "Hypen", "Plus", "Bang"}

\* C13: for every token vector parse returns an AST or a SyntaxError and
\* never crashes or hangs; a statement opened by a token that is no primary
\* (and no keyword) is a SyntaxError; an error leaves no AST.
C13_ParserFailureContract ==
    presult.st # "none" =>
        /\ presult.st \in {"ok", "err"}
        /\ toks[1].k \notin (PrimaryTokens \cup {"Keyword", "Eof"}) => presult.st = "err"
        /\ presult.st = "err" => presult.e = <<>>

\* The expression holds a node shape the compiler does not support: a
\* float, string or char literal, or a unary expression.
RECURSIVE ExprUnsupported(_)
ExprUnsupported(e) ==
    CASE e.t = "Literal" -> e.lit \in {"Float", "String", "Char"}
      [] e.t = "UnaryExpr" -> TRUE
      [] e.t = "BinExpr" -> ExprUnsupported(e.left) \/ ExprUnsupported(e.right)
      [] e.t = "Call" -> ExprUnsupported(e.callee)
      [] e.t = "Dot" -> ExprUnsupported(e.object)
      [] OTHER -> FALSE

ProgramUnsupported(p) ==
    \E k \in 1..Len(p) :
        \/ p[k].t = "Expr" /\ ExprUnsupported(p[k].expr)
        \/ p[k].t = "VarDecl" /\ ExprUnsupported(p[k].init)

\* C14: Compiler::run on an AST holding an unsupported node shape returns
\* an error (and so no Chunk); it does not crash.
C14_UnsupportedNodeIsCompileError ==
    (compiled.st # "none" /\ ProgramUnsupported(Programs[compiled.ast])) =>
        compiled.st = "err"

\* C15: a method call runs the function the receiver's class has under the
\* method's name when the call is made, also through a BoundMethod that
\* Instance::bind made before a later add_method of that name.
C15_DispatchNotMemoized ==
    (last.op = "BoundMethod::call" /\ last.arg \in MethodNames) => last.current

\* The VM is about to execute Call on a stack that is not empty.
AtCall ==
    /\ status = "running"
    /\ ip + 1 <= Len(chunk.instructions)
    /\ chunk.instructions[ip + 1].op = "Call"
    /\ Len(stack) > 0

\* What the step of a Call does to the popped value `top`, `rest` being
\* the stack under it.
CallEffect(top, rest) ==
    CASE top.k = "Class" ->
           /\ instances' = Append(instances, [class |-> top.r, fields |-> <<>>])
           /\ stack' = Append(rest, VInstance(Len(instances) + 1))
           /\ status' = "running"
      [] top.k = "Method" ->
           LET c == Native_call(instances, top.r, top.f) IN
           c.st = "ok" =>
               /\ instances' = c.instances
               /\ stack' = Append(rest, c.ret)
               /\ status' = "running"
      [] OTHER ->
           /\ fault' = "NotCallable"
           /\ stack' = rest
           /\ instances' = instances
           /\ status' # "running"
           /\ mode = "execute" => (status' = "returned" /\ outcome' = "err")

\* C16: Call pops the top of the stack; for a Class it pushes a new
\* Instance of it with no fields; for a BoundMethod it invokes it and pushes
\* the result; for any other value it fails with the not-callable error and
\* pushes nothing.  The globals and the classes stay as they are.
C16_CallSemantics ==
    [][ AtCall =>
          /\ CallEffect(stack[Len(stack)], SubSeq(stack, 1, Len(stack) - 1))
          /\ globals' = globals /\ classes' = classes /\ ip' = ip + 1 ]_vars

\* C16's case: the host's own execute of `1()` got the not-callable error.
C16_Witness ==
    /\ mode = "execute" /\ status = "returned" /\ outcome = "err"
    /\ last.op = "Call" /\ fault = "NotCallable"

\* A prefix operator, an operand, a binary operator, an operand.
IsPrefixedBinary(ts) ==
    /\ Len(ts) = 5
    /\ ts[1].k \in {"Hypen", "Plus", "Bang"}
    /\ ts[2] \in Operands /\ ts[3] \in SumOps \cup TermOps /\ ts[4] \in Operands

\* C17: a prefix operator takes the whole rest of the expression as its
\* operand: -a + b parses to Unary(Sub, Add(a, b)).
C17_PrefixTakesWholeRest ==
    (presult.st # "none" /\ IsPrefixedBinary(toks)) =>
        /\ presult.st = "ok"
        /\ presult.e = <<StmtExpr(UnaryExpr(PrefixOp(toks[1].k),
                            BinExpr(InfixOp(toks[3].k), OperandExpr(toks[2]),
                                    OperandExpr(toks[4]))))>>

\* The VM is about to execute DefineGlobal on a stack that is not empty.
AtDefineGlobal ==
    /\ status = "running"
    /\ ip + 1 <= Len(chunk.instructions)
    /\ chunk.instructions[ip + 1].op = "DefineGlobal"
    /\ Len(stack) > 0

\* C18: DefineGlobal(i) pops the top of the stack and binds it to the name
\* at index i: afterwards that name holds the popped value, whatever it
\* held before, every other name holds what it held, and no other name is
\* bound.
C18_DefineGlobalOverwrites ==
    [][ AtDefineGlobal =>
          /\ stack' = SubSeq(stack, 1, Len(stack) - 1)
          /\ DOMAIN globals' = DOMAIN globals \cup {CurName}
          /\ globals'[CurName] = stack[Len(stack)]
          /\ \A n \in DOMAIN globals \ {CurName} : globals'[n] = globals[n]
          /\ status' = "running" ]_vars

\* C18's case: a definition of x has replaced the value x had, with C bound
\* and left as it was.
C18_Witness ==
    /\ last.op = "DefineGlobal" /\ status = "running"
    /\ "x" \in DOMAIN pre /\ "x" \in DOMAIN globals /\ globals["x"] # pre["x"]
    /\ "C" \in DOMAIN pre /\ "C" \in DOMAIN globals /\ globals["C"] = pre["C"]

\* The instructions that carry an index into the name table.
NameOps == {"Class", "DefineGlobal", "GetGlobal", "GetProperty"}

IsNameInst(inst) == inst.op \in NameOps

\* C19: in every Chunk Compiler::run returns, each index operand of Class,
\* DefineGlobal, GetGlobal and GetProperty is below the length of the name
\* table, and the name at that index is the name the AST has where the
\* instruction comes from.
C19_NameIndexInBounds ==
    compiled.st = "ok" =>
        LET c == compiled.chunk
            named == SelectSeq(c.instructions, IsNameInst)
        IN
        /\ \A k \in 1..Len(named) : named[k].n \in 0..(Len(c.variables) - 1)
        /\ Len(named) = Len(compiled.names)
        /\ \A k \in 1..Len(named) :
              /\ named[k].op = compiled.names[k].op
              /\ c.variables[named[k].n + 1] = compiled.names[k].name

\* C19's case: a chunk with a GetProperty whose name is not the first of
\* the name table.
C19_Witness ==
    /\ compiled.st = "ok"
    /\ \E k \in 1..Len(compiled.chunk.instructions) :
          /\ compiled.chunk.instructions[k].op = "GetProperty"
          /\ compiled.chunk.instructions[k].n >= 1

\* C20: a run of a compiled chunk, begun at instruction pointer 0, ends:
\* every turn moves the instruction pointer up by one (the reset after the
\* Halt of an exec aside) and leaves the chunk alone, so no instruction is
\* executed twice; a running VM always has an instruction left to fetch;
\* the run ends, at Halt with Ok or with a fault.
C20_RunTerminates ==
    /\ [][ status = "running" =>
             /\ chunk' = chunk
             /\ \/ ip' = ip + 1
                \/ mode = "exec" /\ status' = "returned" /\ ip' = 0 ]_vars
    /\ [](status = "running" => (ipStart = 0 /\ ip < Len(chunk.instructions)))
    /\ [](Ended => ((last.op = "Halt" /\ outcome = "ok") \/ fault # ""))
    /\ (status = "running") ~> Ended

\* C20's case: a run of at least four instructions has ended at Halt, the
\* instruction pointer on the last instruction.
C20_Witness ==
    /\ mode = "execute" /\ status = "returned" /\ outcome = "ok"
    /\ last.op = "Halt"
    /\ ip = Len(chunk.instructions) /\ ip >= 4

\* The position r.pos a parser function returned is a position of toks.
InRange(r) == r.pos \in 1..Len(toks)

\* An iteration of the loop of Parser::parse begun at position p, on a
\* token that is not Eof: the statement ends the parse (Err or panic) or
\* leaves the parser further on.
StatementProgress(p) ==
    toks[p].k # "Eof" =>
        LET r == Parser_statement(toks, p) IN
        InRange(r) /\ (r.st = "ok" => r.pos > p)

\* An iteration of the loop of Parser::expression at position p: when the
\* loop condition holds for some bound, infix_expr ends the parse or leaves
\* the parser further on.  The left operand plays no part in it.
ExpressionProgress(p) ==
    LET q == Parser_prec(toks, p) IN
    (q # PrecPanic /\ q # PrecEnd /\ \E minPrec \in PrecNone..PrecEnd : q >= minPrec) =>
        LET r == Parser_infix_expr(toks, Literal("Integer", 1), p) IN
        InRange(r) /\ (r.st = "ok" => r.pos > p)

\* A primary begun at position p is refused or takes a token.
LiteralProgress(p) ==
    LET r == Parser_literal(toks, p) IN
    InRange(r) /\ (r.st = "ok" => r.pos > p)

\* C21: on every token vector that ends in Eof, consume never moves past
\* the last token (on the last token it does nothing), every iteration of
\* the statement loop and of the expression loop, begun at any position,
\* takes a token or stops, and parse comes to an end at a position of the
\* vector.
C21_ParserProgress ==
    presult.st # "none" =>
          /\ \A p \in 1..Len(toks) :
                /\ Parser_consume(toks, p) \in 1..Len(toks)
                /\ Parser_consume(toks, p) >= p
                /\ StatementProgress(p)
                /\ LiteralProgress(p)
                /\ ExpressionProgress(p)
          /\ Parser_consume(toks, Len(toks)) = Len(toks)
          /\ presult.st \in {"ok", "err", "panic"}
          /\ presult.pos \in 1..Len(toks)
          /\ presult.st = "ok" => toks[presult.pos].k = "Eof"

\* C21's case: `class C {` has been parsed; the last consume of
\* Parser::class was made on the last token.
C21_Witness ==
    /\ toks = <<KwClass, TIdent("C"), Tok("LBrace"), TEof>>
    /\ presult.st = "ok"
    /\ presult.pos = Len(toks)
====
